---------------------------- MODULE Spec2Model ----------------------------
(***************************************************************************)
(* Model of the notification service of                                    *)
(* substrate/client/network/src/protocol/notifications/service/mod.rs:     *)
(* the ProtocolHandle (network side), the NotificationHandles (protocol    *)
(* side, cloneable), the subscriber registry they share, the per-peer      *)
(* PeerContext with its distributable NotificationSink, and the validation *)
(* of inbound substreams.                                                  *)
(***************************************************************************)
EXTENDS Integers, Sequences, FiniteSets, TLC

\* ------------------------------------------------------------------ bounds
\* Handles ever created (the original one and its clones).
MaxHandles == 3
\* report_substream_opened/closed, report_notification_received and
\* report_notification_sink_replaced calls made by the transport.
MaxReports == 3
\* report_incoming_substream calls made by the transport.
MaxValidations == 1
\* Notifications sent by the protocol side (handles and sink holders).
MaxSends == 1
\* Message sinks held outside the handles.
MaxRefs == 1
\* Calls of try_set_handshake, open_substream and close_substream.
MaxCalls == 1
\* Characters of the protocol names given to notification_service.
MaxNameLen == 4

Handles == 1..MaxHandles
Peers == {"P", "Q"}
Handshakes == {0, 1}
Notifications == {170}
\* The transport makes a new NotificationsSink for every substream it opens
\* and for every replacement: the k-th report carries sink k.
Sinks == 1..MaxReports
NoSink == 0
ProtocolName == "/sup/1"

VARIABLES
    hstate,               \* handle -> "unborn" | "alive" | "dropped"
    rx,                   \* NotificationHandle::rx: handle -> queue of InnerNotificationEvent
    peers,                \* NotificationHandle::peers: handle -> (peer -> PeerContext or NoPeer)
    cells,                \* the Arc<Mutex<(NotificationsSink, ProtocolName)>> cells, by identity
    subscribers,          \* Subscribers: sequence of senders (named by the handle whose rx they feed)
    num_peers,            \* ProtocolHandle::num_peers
    delegate_to_peerset,  \* ProtocolHandle::delegate_to_peerset
    panicked,             \* the task driving the ProtocolHandle has panicked
    nreports,             \* lifecycle reports made so far
    tsink,                \* transport: peer -> sink of its open substream, NoSink when closed
    topen,                \* transport: peer -> sink its open substream was opened with
    vals,                 \* one record per report_incoming_substream call
    refs,                 \* message sinks held outside the handles: the cell, and the
                          \* number of reports made when message_sink returned it
    inflight,             \* MessageSink::send_async_notification calls awaiting their permit
    wire,                 \* notifications enqueued on transport sinks, in order: the sink,
                          \* the bytes, and the cell (or <<handle, NoSink>>) they went through
    public,               \* handle -> what its next_event calls have returned, in order
    calls,                \* calls made on the handles by the protocol, with what they returned
    cmd_queue,            \* the mpsc channel of NotificationCommand: the commands queued
    cmd_rx,               \* the receiver of that channel exists
    protocol_dropped,     \* the ProtocolHandle has been dropped
    metric,               \* the protocol name given to notification_service and the
                          \* name it gave the event channel
    pc,                   \* thread -> the method it is in and how far it has got
    subscribers_guard,    \* the thread holding the MutexGuard of Subscribers
    shared_sink_guard,    \* the thread holding the MutexGuard of a shared_sink
    conversion            \* one call of convert_asset on a tuple: the members, the
                          \* arguments, the members called and what was returned

\* The state of the service proper, and the rest.
svc_vars == <<hstate, rx, peers, cells, subscribers, num_peers, delegate_to_peerset,
              panicked, nreports, tsink, topen, vals, refs, inflight, wire>>
lock_vars == <<pc, subscribers_guard, shared_sink_guard>>
api_vars == <<calls, cmd_queue, cmd_rx, protocol_dropped, metric, lock_vars, conversion>>

vars == <<hstate, rx, peers, cells, subscribers, num_peers, delegate_to_peerset,
          panicked, nreports, tsink, topen, vals, refs, inflight, wire,
          public, calls, cmd_queue, cmd_rx, protocol_dropped, metric,
          pc, subscribers_guard, shared_sink_guard, conversion>>

\* ------------------------------------------------------------------ helpers
Range(s) == {s[i] : i \in 1..Len(s)}
Alive(h) == hstate[h] = "alive"
NoPeer == [sink |-> NoSink, shared |-> <<0, 0>>]
NoCell == [sink |-> NoSink, name |-> ""]
EmptyPeers == [p \in Peers |-> NoPeer]
CellIds == Handles \X Sinks

\* InnerNotificationEvent
ValidateInboundSubstream(peer, handshake, vid) ==
    [type |-> "ValidateInboundSubstream", peer |-> peer, data |-> handshake,
     sink |-> NoSink, vid |-> vid]
NotificationStreamOpened(peer, sink) ==
    [type |-> "NotificationStreamOpened", peer |-> peer, data |-> 0,
     sink |-> sink, vid |-> 0]
NotificationStreamClosed(peer) ==
    [type |-> "NotificationStreamClosed", peer |-> peer, data |-> 0,
     sink |-> NoSink, vid |-> 0]
NotificationReceived(peer, notification) ==
    [type |-> "NotificationReceived", peer |-> peer, data |-> notification,
     sink |-> NoSink, vid |-> 0]
NotificationSinkReplaced(peer, sink) ==
    [type |-> "NotificationSinkReplaced", peer |-> peer, data |-> 0,
     sink |-> sink, vid |-> 0]

\* TracingUnboundedSender::unbounded_send succeeds iff the receiver exists.
SendOk(h) == Alive(h)

\* The event offered to the first sender only.
Deliver_FirstOnly(subs, event) ==
    [h \in Handles |-> IF subs # <<>> /\ h = subs[1] /\ SendOk(h)
                       THEN Append(rx[h], event) ELSE rx[h]]

\* rx after `event` was offered to every sender in `subs`.
Deliver(subs, event) ==
    [h \in Handles |-> IF h \in Range(subs) /\ SendOk(h) THEN Append(rx[h], event) ELSE rx[h]]

\* ---------------------------------------------- metric_label_for_protocol
\* A string is the sequence of its characters; the literal the label starts
\* with is kept as one element.
LabelPrefix == "mpsc-notification-to-protocol"
ProtocolNameChars == <<"/", "s", "u", "p", "/", "1">>

Min(a, b) == IF a < b THEN a ELSE b

\* protocol_name.split("/"): the pieces between the separators; a string
\* without separator is one piece, and so is the empty string.
RECURSIVE Split(_)
Split(str) ==
    IF str = <<>> THEN << <<>> >>
    ELSE LET rest == Split(Tail(str)) IN
         IF Head(str) = "/"
         THEN << <<>> >> \o rest
         ELSE << <<Head(str)>> \o Head(rest) >> \o Tail(rest)

\* .rev()
Rev(keys) == [i \in 1..Len(keys) |-> keys[Len(keys) + 1 - i]]

\* No .take(n): every piece is kept.
Take_All(keys, n) == keys

\* .take(n)
Take(keys, n) == SubSeq(keys, 1, Min(n, Len(keys)))

\* format!("{}-{}", acc, val)
Format(acc, val) == acc \o <<"-">> \o val

\* .fold(init, |acc, val| format!("{}-{}", acc, val))
RECURSIVE Fold(_, _)
Fold(acc, keys) ==
    IF keys = <<>> THEN acc ELSE Fold(Format(acc, Head(keys)), Tail(keys))

\* The last two pieces taken without reversing.
metric_label_for_protocol_InOrder(protocol) ==
    LET keys == Split(protocol) IN
    Fold(<<LabelPrefix>>, SubSeq(keys, Len(keys) + 1 - Min(2, Len(keys)), Len(keys)))

metric_label_for_protocol(protocol) ==
    Fold(<<LabelPrefix>>, Take(Rev(Split(protocol)), 2))

\* Before notification_service has run there is no event channel to name.
NoLabel == <<>>

\* The protocol names tried: every string of up to MaxNameLen characters
\* over NameChars, and two longer ones.
NameChars == {"/", "d", "e"}
ExampleName == <<"/", "a", "/", "b", "/", "c", "/", "d", "/", "e">>
ScenarioName == <<"/", "s", "u", "p", "/", "1", "/", "t", "r", "a", "n", "s", "a", "c",
                  "t", "i", "o", "n", "s", "/", "2">>
Names == UNION {[1..n -> NameChars] : n \in 0..MaxNameLen} \cup {ExampleName, ScenarioName}

\* The handles, the ProtocolHandle and the channels as notification_service
\* and split() return them.
\* ------------------------------------------------------- AssetConversion
\* impl_for_tuples(30): tuples of up to thirty members; the members tried here.
MaxMembers == 3
AssetIds == {"A", "B", "C"}
\* Result<Asset, XcmError>
Ok(asset) == [ok |-> TRUE, asset |-> asset, error |-> "-"]
Err(error) == [ok |-> FALSE, asset |-> [id |-> "-", fun |-> 0], error |-> error]
\* Implementations of AssetConversion to put in a tuple: each converts to
\* the asset ids it knows, at its rate, and fails with its error otherwise.
Members ==
    {[accepts |-> {"A"}, rate |-> 2, error |-> "AssetNotFound"],
     [accepts |-> {"A", "B"}, rate |-> 3, error |-> "FeesNotMet"],
     [accepts |-> {}, rate |-> 1, error |-> "Overflow"]}
\* Tuple::convert_asset(asset, asset_id) of one member.
MemberConvert(member, asset, asset_id) ==
    IF asset_id \in member.accepts
    THEN Ok([id |-> asset_id, fun |-> asset.fun * member.rate])
    ELSE Err(member.error)

\* Option<XcmError>::None
NoError == "None"

\* Only the first error kept.
RecordError_KeepFirst(last_error, error) == IF last_error = NoError THEN error ELSE last_error

\* last_error = Some(error)
RecordError(last_error, error) == error

\* last_error.unwrap_or(XcmError::TooExpensive)
UnwrapOr(last_error) == IF last_error = NoError THEN "TooExpensive" ELSE last_error

\* The body of the tuple's convert_asset from its i-th member on: the
\* members called, in order, and what is returned.
RECURSIVE TupleConvert(_, _, _, _, _, _)
TupleConvert(members, asset, asset_id, i, last_error, called) ==
    IF i > Len(members)
    THEN [called |-> called, ret |-> Err(UnwrapOr(last_error))]
    ELSE LET result == MemberConvert(members[i], asset, asset_id) IN
         IF result.ok
         THEN [called |-> Append(called, i), ret |-> result]
         ELSE TupleConvert(members, asset, asset_id, i + 1,
                           RecordError(last_error, result.error), Append(called, i))

RECURSIVE Tuples(_)
Tuples(n) ==
    IF n = 0 THEN {<<>>}
    ELSE Tuples(n - 1) \cup {Append(t, m) : t \in {u \in Tuples(n - 1) : Len(u) = n - 1},
                                              m \in Members}
NotReturned == [ok |-> FALSE, asset |-> [id |-> "-", fun |-> 0], error |-> "-"]
NoConversion ==
    [members |-> <<>>, asset |-> [id |-> "-", fun |-> 0], asset_id |-> "-",
     called |-> <<>>, ret |-> NotReturned, done |-> TRUE]

\* The threads that call into the service: the one driving the
\* ProtocolHandle, the owners of two NotificationHandles, two holders of a
\* MessageSink.
Threads == {"transport", "handle1", "handle2", "sink1", "sink2"}
NoThread == "none"
\* The methods of a thread that take a lock or suspend.
Methods(t) ==
    CASE t = "transport" -> {"report"}
      [] t \in {"handle1", "handle2"} -> {"clone", "next_event"}
      [] OTHER -> {"send_sync_notification", "send_async_notification"}
\* A thread is outside every method, about to call lock(), inside the
\* critical section, or suspended at an .await.
Idle == [method |-> "none", at |-> "idle"]
At(method, at) == [method |-> method, at |-> at]

InitService ==
    /\ public = [h \in Handles |-> <<>>]
    /\ calls = <<>>
    /\ cmd_queue = <<>>
    /\ cmd_rx = TRUE
    /\ protocol_dropped = FALSE
    /\ pc = [t \in Threads |-> Idle]
    /\ subscribers_guard = NoThread
    /\ shared_sink_guard = NoThread
    /\ hstate = [h \in Handles |-> IF h = 1 THEN "alive" ELSE "unborn"]
    /\ rx = [h \in Handles |-> <<>>]
    /\ peers = [h \in Handles |-> EmptyPeers]
    /\ cells = [c \in CellIds |-> NoCell]
    /\ subscribers = <<1>>
    /\ num_peers = 0
    /\ delegate_to_peerset = FALSE
    /\ panicked = FALSE
    /\ nreports = 0
    /\ tsink = [p \in Peers |-> NoSink]
    /\ topen = [p \in Peers |-> NoSink]
    /\ vals = <<>>
    /\ refs = {}
    /\ inflight = {}
    /\ wire = <<>>

Init ==
    /\ InitService
    /\ conversion = NoConversion
    /\ metric = [protocol |-> ProtocolNameChars,
                 label |-> metric_label_for_protocol(ProtocolNameChars)]

\* notification_service about to be called with some protocol name.
InitLabel ==
    /\ InitService
    /\ conversion = NoConversion
    /\ \E name \in Names : metric = [protocol |-> name, label |-> NoLabel]

\* notification_service naming the event channel of the original handle.
notification_service ==
    /\ metric.label = NoLabel
    /\ metric' = [metric EXCEPT !.label = metric_label_for_protocol(metric.protocol)]
    /\ UNCHANGED <<svc_vars, lock_vars, conversion, public, calls, cmd_queue, cmd_rx, protocol_dropped>>

SpecLabel == InitLabel /\ [][notification_service]_vars

\* convert_asset about to be called on some tuple, to get some asset id for
\* five units of C.
InitConvert ==
    /\ InitService
    /\ metric = [protocol |-> ProtocolNameChars,
                 label |-> metric_label_for_protocol(ProtocolNameChars)]
    /\ \E members \in Tuples(MaxMembers), asset_id \in AssetIds :
          conversion = [members |-> members, asset |-> [id |-> "C", fun |-> 5],
                        asset_id |-> asset_id, called |-> <<>>, ret |-> NotReturned,
                        done |-> FALSE]

\* <Tuple as AssetConversion>::convert_asset
convert_asset ==
    /\ ~conversion.done
    /\ LET out == TupleConvert(conversion.members, conversion.asset, conversion.asset_id,
                               1, NoError, <<>>)
       IN conversion' = [conversion EXCEPT !.called = out.called, !.ret = out.ret,
                                           !.done = TRUE]
    /\ UNCHANGED <<svc_vars, lock_vars, public, calls, cmd_queue, cmd_rx, protocol_dropped,
                   metric>>

SpecConvert == InitConvert /\ [][convert_asset]_vars


\* ------------------------------------------------------- ProtocolHandle
\* usize::MAX.  num_peers holds a usize as the representative of its residue
\* modulo 2^64 that lies nearest to zero, so usize::MAX is written -1 and
\* wrapping arithmetic is plain integer arithmetic.
UsizeMax == -1

\* `n -= 1` on a usize: below zero the operation panics in a build with
\* overflow checks and wraps in a build without them.
SubAssignOne(n) ==
    IF n = 0
    THEN {[panic |-> TRUE, value |-> n], [panic |-> FALSE, value |-> UsizeMax]}
    ELSE {[panic |-> FALSE, value |-> n - 1]}

\* `n += 1` on a usize.
AddAssignOne(n) ==
    IF n = UsizeMax
    THEN {[panic |-> TRUE, value |-> n], [panic |-> FALSE, value |-> 0]}
    ELSE {[panic |-> FALSE, value |-> n + 1]}

\* The oneshot::Receiver of a validation, as the transport polls it.
ReceiverYields(call) ==
    CASE call.mode = "aggregated" -> call.out
      [] call.mode = "direct" ->
            LET answer == call.reply[CHOOSE h \in Handles : call.reply[h] # "none"] IN
            CASE answer \in {"Accept", "Reject"} -> answer
              [] answer = "Dropped" -> "RecvError"
              [] OTHER -> "Pending"
      [] OTHER -> "none"

\* A send failing as well when the receiver has events waiting.
Retain_FullIsGone(subs) == SelectSeq(subs, LAMBDA h : SendOk(h) /\ rx[h] = <<>>)

\* subscribers.retain(|subscriber| subscriber.unbounded_send(..).is_ok())
Retain(subs) == SelectSeq(subs, SendOk)

\* ProtocolHandle::delegate_to_peerset: configuration, called before any
\* peer event is reported.
set_delegate_to_peerset(delegate) ==
    /\ ~panicked /\ ~protocol_dropped
    /\ nreports = 0 /\ vals = <<>>
    /\ delegate # delegate_to_peerset
    /\ delegate_to_peerset' = delegate
    /\ UNCHANGED <<public, api_vars, hstate, rx, peers, cells, subscribers, num_peers, panicked,
                   nreports, tsink, topen, vals, refs, inflight, wire>>

NoReply == [h \in Handles |-> "none"]

\* A failed unbounded_send counted as a receiver that was dropped.
FanOutReplies_FailedCounted(subs) ==
    [h \in Handles |-> IF h \in Range(subs)
                       THEN IF SendOk(h) THEN "queued" ELSE "Dropped"
                       ELSE "none"]

\* The receivers collected by the filter_map of the fan-out: one per
\* subscriber whose unbounded_send succeeded.
FanOutReplies(subs) ==
    [h \in Handles |-> IF h \in Range(subs) /\ SendOk(h) THEN "queued" ELSE "none"]

Call(peer, handshake, ret, mode, reply, out) ==
    [peer |-> peer, handshake |-> handshake, ret |-> ret, mode |-> mode,
     reply |-> reply, out |-> out]

\* report_incoming_substream without the single-subscriber shortcut.
ValidationCall_AlwaysAggregates(peer, handshake) ==
    IF delegate_to_peerset
    THEN Call(peer, handshake, "Delegated", "none", NoReply, "none")
    ELSE Call(peer, handshake, "WaitForValidation", "aggregated",
              FanOutReplies(subscribers), "Pending")

\* report_incoming_substream failing whenever no send succeeded.
ValidationCall_ErrWhenNoReceiver(peer, handshake) ==
    IF delegate_to_peerset
    THEN Call(peer, handshake, "Delegated", "none", NoReply, "none")
    ELSE IF FanOutReplies(subscribers) = NoReply
    THEN Call(peer, handshake, "Err", "none", NoReply, "none")
    ELSE IF Len(subscribers) = 1
    THEN Call(peer, handshake, "WaitForValidation", "direct",
              FanOutReplies(subscribers), "none")
    ELSE Call(peer, handshake, "WaitForValidation", "aggregated",
              FanOutReplies(subscribers), "Pending")

\* report_incoming_substream testing delegate_to_peerset after the
\* single-subscriber shortcut.
ValidationCall_DelegateCheckedLate(peer, handshake) ==
    IF Len(subscribers) = 1
    THEN IF SendOk(subscribers[1])
         THEN Call(peer, handshake, "WaitForValidation", "direct",
                   FanOutReplies(subscribers), "none")
         ELSE Call(peer, handshake, "Err", "none", NoReply, "none")
    ELSE IF delegate_to_peerset
    THEN Call(peer, handshake, "Delegated", "none", NoReply, "none")
    ELSE Call(peer, handshake, "WaitForValidation", "aggregated",
              FanOutReplies(subscribers), "Pending")

\* The record of one report_incoming_substream call: what it returned, and
\* the oneshot channels it created.
ValidationCall(peer, handshake) ==
    IF delegate_to_peerset
    THEN Call(peer, handshake, "Delegated", "none", NoReply, "none")
    ELSE IF Len(subscribers) = 1
    THEN IF SendOk(subscribers[1])
         THEN Call(peer, handshake, "WaitForValidation", "direct",
                   FanOutReplies(subscribers), "none")
         ELSE Call(peer, handshake, "Err", "none", NoReply, "none")
    ELSE Call(peer, handshake, "WaitForValidation", "aggregated",
              FanOutReplies(subscribers), "Pending")

report_incoming_substream(peer, handshake) ==
    /\ ~panicked /\ ~protocol_dropped
    /\ Len(vals) < MaxValidations
    /\ LET call == ValidationCall(peer, handshake)
           vid == Len(vals) + 1
       IN /\ vals' = Append(vals, call)
          /\ rx' = [h \in Handles |->
                       IF call.reply[h] = "queued"
                       THEN Append(rx[h], ValidateInboundSubstream(peer, handshake, vid))
                       ELSE rx[h]]
    /\ UNCHANGED <<public, api_vars, hstate, peers, cells, subscribers, num_peers, delegate_to_peerset,
                   panicked, nreports, tsink, topen, refs, inflight, wire>>

\* The task without the tx.send(Accept) that follows its loop.
AggregateVerdict_NoFinalSend(reply) ==
    IF \E h \in Handles : reply[h] \in {"Reject", "Dropped"} THEN "Reject" ELSE "Pending"

\* The task with `Err(_)` left out of its Reject arm.
AggregateVerdict_ErrIgnored(reply) ==
    IF \E h \in Handles : reply[h] = "Reject" THEN "Reject"
    ELSE IF \A h \in Handles : reply[h] \in {"none", "Accept", "Dropped"} THEN "Accept"
    ELSE "Pending"

\* The task joining every receiver before it decides.
AggregateVerdict_JoinAll(reply) ==
    IF \E h \in Handles : reply[h] \in {"queued", "held"} THEN "Pending"
    ELSE IF \E h \in Handles : reply[h] \in {"Reject", "Dropped"} THEN "Reject"
    ELSE "Accept"

\* The task rejecting when it has no receiver at all.
AggregateVerdict_EmptyRejects(reply) ==
    IF \E h \in Handles : reply[h] \in {"Reject", "Dropped"} THEN "Reject"
    ELSE IF \A h \in Handles : reply[h] = "none" THEN "Reject"
    ELSE IF \A h \in Handles : reply[h] \in {"none", "Accept"} THEN "Accept"
    ELSE "Pending"

\* What the spawned task sends on `tx` once it can decide, "Pending" while
\* it cannot: Reject as soon as one receiver yields Reject or an error,
\* Accept when every receiver has yielded Accept.
AggregateVerdict(reply) ==
    IF \E h \in Handles : reply[h] \in {"Reject", "Dropped"} THEN "Reject"
    ELSE IF \A h \in Handles : reply[h] \in {"none", "Accept"} THEN "Accept"
    ELSE "Pending"

\* One poll of the task spawned by report_incoming_substream.
aggregator_task(vid) ==
    /\ vid \in 1..Len(vals)
    /\ vals[vid].mode = "aggregated"
    /\ vals[vid].out = "Pending"
    /\ AggregateVerdict(vals[vid].reply) # "Pending"
    /\ vals' = [vals EXCEPT ![vid].out = AggregateVerdict(vals[vid].reply)]
    /\ UNCHANGED <<public, api_vars, hstate, rx, peers, cells, subscribers, num_peers, delegate_to_peerset,
                   panicked, nreports, tsink, topen, refs, inflight, wire>>

\* The transport opens a substream for a peer that has none, and reports
\* notifications and sink replacements for peers that have one.
report_substream_opened(peer) ==
    /\ ~panicked /\ ~protocol_dropped
    /\ nreports < MaxReports
    /\ tsink[peer] = NoSink
    /\ LET sink == nreports + 1 IN
       /\ rx' = Deliver(subscribers, NotificationStreamOpened(peer, sink))
       /\ tsink' = [tsink EXCEPT ![peer] = sink]
       /\ topen' = [topen EXCEPT ![peer] = sink]
    /\ subscribers' = Retain(subscribers)
    /\ \E r \in AddAssignOne(num_peers) :
          /\ num_peers' = r.value
          /\ panicked' = r.panic
    /\ nreports' = nreports + 1
    /\ UNCHANGED <<public, api_vars, hstate, peers, cells, delegate_to_peerset, vals, refs, inflight, wire>>

\* The transport may report a close for a peer it never reported open.
report_substream_closed(peer) ==
    /\ ~panicked /\ ~protocol_dropped
    /\ nreports < MaxReports
    /\ rx' = Deliver(subscribers, NotificationStreamClosed(peer))
    /\ subscribers' = Retain(subscribers)
    /\ \E r \in SubAssignOne(num_peers) :
          /\ num_peers' = r.value
          /\ panicked' = r.panic
    /\ tsink' = [tsink EXCEPT ![peer] = NoSink]
    /\ topen' = [topen EXCEPT ![peer] = NoSink]
    /\ nreports' = nreports + 1
    /\ UNCHANGED <<public, api_vars, hstate, peers, cells, delegate_to_peerset, vals, refs, inflight, wire>>

report_notification_received(peer, notification) ==
    /\ ~panicked /\ ~protocol_dropped
    /\ nreports < MaxReports
    /\ tsink[peer] # NoSink
    /\ rx' = Deliver(subscribers, NotificationReceived(peer, notification))
    /\ subscribers' = Retain(subscribers)
    /\ nreports' = nreports + 1
    /\ UNCHANGED <<public, api_vars, hstate, peers, cells, num_peers, delegate_to_peerset, panicked,
                   tsink, topen, vals, refs, inflight, wire>>

report_notification_sink_replaced(peer) ==
    /\ ~panicked /\ ~protocol_dropped
    /\ nreports < MaxReports
    /\ tsink[peer] # NoSink
    /\ LET sink == nreports + 1 IN
       /\ rx' = Deliver(subscribers, NotificationSinkReplaced(peer, sink))
       /\ tsink' = [tsink EXCEPT ![peer] = sink]
    /\ subscribers' = Retain(subscribers)
    /\ nreports' = nreports + 1
    /\ UNCHANGED <<public, api_vars, hstate, peers, cells, num_peers, delegate_to_peerset, panicked,
                   topen, vals, refs, inflight, wire>>

\* Notifications drops the ProtocolHandle: no more reports.  The subscribers
\* vector stays, held by the handles.
drop_protocol_handle ==
    /\ ~protocol_dropped
    /\ protocol_dropped' = TRUE
    /\ UNCHANGED <<svc_vars, lock_vars, conversion, public, calls, cmd_queue, cmd_rx, metric>>


\* --------------------------------------------------- NotificationHandle
\* A cell lives as long as some Arc to it does: a PeerContext or a holder.
Collect(cs, ps, rs) ==
    [c \in CellIds |->
        IF c \in {r.cell : r \in rs} \/ \E h \in Handles, p \in Peers : ps[h][p] # NoPeer /\ ps[h][p].shared = c
        THEN cs[c] ELSE NoCell]

\* The handle leaving its own sink as it was.
PeersAfter_PrimaryKept(h, event) ==
    CASE event.type = "NotificationStreamOpened" ->
            [peers EXCEPT ![h][event.peer] =
                [sink |-> event.sink, shared |-> <<h, event.sink>>]]
      [] event.type = "NotificationStreamClosed" ->
            [peers EXCEPT ![h][event.peer] = NoPeer]
      [] OTHER -> peers

\* peers and cells after the handle has done the bookkeeping of `event`.
PeersAfter(h, event) ==
    CASE event.type = "NotificationStreamOpened" ->
            [peers EXCEPT ![h][event.peer] =
                [sink |-> event.sink, shared |-> <<h, event.sink>>]]
      [] event.type = "NotificationStreamClosed" ->
            [peers EXCEPT ![h][event.peer] = NoPeer]
      [] event.type = "NotificationSinkReplaced" /\ peers[h][event.peer] # NoPeer ->
            [peers EXCEPT ![h][event.peer].sink = event.sink]
      [] OTHER -> peers

\* The swap storing the sink without the protocol name.
SwapSink_NameLost(cell, sink) == [sink |-> sink, name |-> ""]

\* The handle updating its own sink only.
SwapSink_Skipped(cell, sink) == cell

\* *context.shared_sink.lock() = (sink.clone(), self.protocol.clone())
SwapSink(cell, sink) == [sink |-> sink, name |-> ProtocolName]

CellsAfter(h, event) ==
    CASE event.type = "NotificationStreamOpened" ->
            [cells EXCEPT ![<<h, event.sink>>] = [sink |-> event.sink, name |-> ProtocolName]]
      [] event.type = "NotificationSinkReplaced" /\ peers[h][event.peer] # NoPeer ->
            [cells EXCEPT ![peers[h][event.peer].shared] = SwapSink(@, event.sink)]
      [] OTHER -> cells

\* NotificationEvent: what next_event returns for an inner event.
PublicEvent(event) == [type |-> event.type, peer |-> event.peer, data |-> event.data]
\* next_event returning None.
None == [type |-> "None", peer |-> "", data |-> 0]

\* next_event returning after every inner event.
Surfaced_All(log, event) == Append(log, PublicEvent(event))

\* The returns of next_event after one more inner event: every arm of the
\* match returns, except that of NotificationSinkReplaced.
Surfaced(log, event) ==
    IF event.type = "NotificationSinkReplaced" THEN log ELSE Append(log, PublicEvent(event))

\* self.rx.next() yields None once the channel is empty and its sender is
\* gone.  The sender sits in the subscribers vector, which exists as long as
\* the ProtocolHandle or a handle does.
StreamEnded(h) ==
    \/ h \notin Range(subscribers)
    \/ protocol_dropped /\ \A g \in Handles : ~Alive(g)

\* One turn of the loop of next_event: take the next inner event and do its
\* bookkeeping.  A ValidateInboundSubstream hands its result_tx to the caller.
next_event(h) ==
    /\ Alive(h)
    /\ IF rx[h] # <<>>
       THEN LET event == Head(rx[h]) IN
            /\ rx' = [rx EXCEPT ![h] = Tail(@)]
            /\ peers' = PeersAfter(h, event)
            /\ cells' = Collect(CellsAfter(h, event), PeersAfter(h, event), refs)
            /\ vals' = IF event.type = "ValidateInboundSubstream"
                       THEN [vals EXCEPT ![event.vid].reply[h] = "held"]
                       ELSE vals
            /\ public' = [public EXCEPT ![h] = Surfaced(@, event)]
       ELSE /\ StreamEnded(h)
            /\ public' = [public EXCEPT ![h] = IF @ # <<>> /\ @[Len(@)] = None
                                               THEN @ ELSE Append(@, None)]
            /\ UNCHANGED <<rx, peers, cells, vals>>
    /\ UNCHANGED <<api_vars, hstate, subscribers, num_peers, delegate_to_peerset, panicked,
                   nreports, tsink, topen, refs, inflight, wire>>

\* A clone starting from HashMap::new().
ClonedPeers_Empty(h) == EmptyPeers

\* The peers field of the handle returned by clone.
ClonedPeers(h) == peers[h]

clone(h) ==
    /\ Alive(h)
    /\ \E n \in Handles :
          /\ hstate[n] = "unborn"
          /\ \A m \in Handles : hstate[m] = "unborn" => n <= m
          /\ subscribers' = Append(subscribers, n)
          /\ hstate' = [hstate EXCEPT ![n] = "alive"]
          /\ peers' = [peers EXCEPT ![n] = ClonedPeers(h)]
    /\ UNCHANGED <<public, api_vars, rx, cells, num_peers, delegate_to_peerset, panicked, nreports,
                   tsink, topen, vals, refs, inflight, wire>>

\* The handle is dropped: its receiver, the events still queued in it (with
\* the result_tx they carry) and its PeerContexts go with it.
drop_handle(h) ==
    /\ Alive(h)
    /\ hstate' = [hstate EXCEPT ![h] = "dropped"]
    /\ rx' = [rx EXCEPT ![h] = <<>>]
    /\ public' = [public EXCEPT ![h] = <<>>]
    /\ peers' = [peers EXCEPT ![h] = EmptyPeers]
    /\ cells' = Collect(cells, [peers EXCEPT ![h] = EmptyPeers], refs)
    /\ vals' = [v \in 1..Len(vals) |->
                   IF vals[v].reply[h] = "queued"
                   THEN [vals[v] EXCEPT !.reply[h] = "Dropped"]
                   ELSE vals[v]]
    /\ UNCHANGED <<api_vars, subscribers, num_peers, delegate_to_peerset, panicked, nreports,
                   tsink, topen, refs, inflight, wire>>

RefCells == {r.cell : r \in refs}

\* message_sink returns a clone of the Arc of the peer's shared_sink.
message_sink(h, peer) ==
    /\ Alive(h)
    /\ peers[h][peer] # NoPeer
    /\ peers[h][peer].shared \notin RefCells
    /\ Cardinality(refs) < MaxRefs
    /\ refs' = refs \cup {[cell |-> peers[h][peer].shared, at |-> nreports]}
    /\ UNCHANGED <<public, api_vars, hstate, rx, peers, cells, subscribers, num_peers, delegate_to_peerset,
                   panicked, nreports, tsink, topen, vals, inflight, wire>>

Sent == Len(wire) + Cardinality(inflight)

\* One call made on a handle: the method, the handle, the peer or handshake
\* given, what the transport sink did with it, and what the method returned.
HandleCall(op, h, arg, sink, value) ==
    [op |-> op, handle |-> h, arg |-> arg, sink |-> sink, value |-> value]

\* A send through the distributable sink of the peer.
SendTarget_Shared(h, peer) == cells[peers[h][peer].shared].sink

\* The sink the sends of the handle address: info.sink, the primary one.
SendTarget(h, peer) == peers[h][peer].sink

\* NotificationHandle::send_sync_notification
send_sync_notification(h, peer, notification) ==
    /\ Alive(h)
    /\ Sent < MaxSends /\ Len(calls) < MaxSends
    /\ IF peers[h][peer] # NoPeer
       THEN wire' = Append(wire, [sink |-> SendTarget(h, peer), data |-> notification,
                                  via |-> <<h, NoSink>>])
       ELSE wire' = wire
    /\ calls' = Append(calls, HandleCall("send_sync_notification", h, peer, "-", "()"))
    /\ UNCHANGED <<lock_vars, conversion, public, cmd_queue, cmd_rx, protocol_dropped, metric,
                   hstate, rx, peers, cells, subscribers, num_peers, delegate_to_peerset,
                   panicked, nreports, tsink, topen, vals, refs, inflight>>

\* What reserve_notification().await and Ready::send can do, as the substream
\* behind the sink decides.
SinkOutcomes == {"Sent", "ReserveRefused", "SendFailed"}

\* Both failures of the sink reported as ChannelClosed.
AsyncResult_OneError(known, outcome) ==
    CASE ~known -> "PeerDoesntExist"
      [] outcome = "Sent" -> "Ok"
      [] OTHER -> "ChannelClosed"

\* The Result of NotificationHandle::send_async_notification.
AsyncResult(known, outcome) ==
    CASE ~known -> "PeerDoesntExist"
      [] outcome = "ReserveRefused" -> "ConnectionClosed"
      [] outcome = "SendFailed" -> "ChannelClosed"
      [] OTHER -> "Ok"

\* NotificationHandle::send_async_notification.  The handle is borrowed
\* mutably for the whole call, so nothing else happens to it meanwhile.
send_async_notification(h, peer, notification, outcome) ==
    /\ Alive(h)
    /\ Sent < MaxSends /\ Len(calls) < MaxSends
    /\ LET known == peers[h][peer] # NoPeer IN
       /\ wire' = IF known /\ outcome = "Sent"
                  THEN Append(wire, [sink |-> SendTarget(h, peer), data |-> notification,
                                     via |-> <<h, NoSink>>])
                  ELSE wire
       /\ calls' = Append(calls, HandleCall("send_async_notification", h, peer,
                                            IF known THEN outcome ELSE "-",
                                            AsyncResult(known, outcome)))
    /\ UNCHANGED <<lock_vars, conversion, public, cmd_queue, cmd_rx, protocol_dropped, metric,
                   hstate, rx, peers, cells, subscribers, num_peers, delegate_to_peerset,
                   panicked, nreports, tsink, topen, vals, refs, inflight>>

\* ------------------------------------------------- the command channel
COMMAND_QUEUE_SIZE == 64

\* NotificationCommand
OpenSubstream(peer) == [type |-> "OpenSubstream", arg |-> peer]
CloseSubstream(peer) == [type |-> "CloseSubstream", arg |-> peer]
SetHandshake(handshake) == [type |-> "SetHandshake", arg |-> handshake]

\* The handshake set_handshake is called with.
UsualHandshake == 0

\* A channel taking one command more than its capacity.
TrySend_OneMore(cmd) ==
    IF cmd_rx /\ Len(cmd_queue) <= COMMAND_QUEUE_SIZE
    THEN [value |-> "Ok", queue |-> Append(cmd_queue, cmd)]
    ELSE [value |-> "Err", queue |-> cmd_queue]

\* mpsc::Sender::try_send on the channel made by mpsc::channel(COMMAND_QUEUE_SIZE):
\* it fails when the receiver is gone and when the channel holds as many
\* commands as its capacity; otherwise the command goes behind the others.
TrySend(cmd) ==
    IF cmd_rx /\ Len(cmd_queue) < COMMAND_QUEUE_SIZE
    THEN [value |-> "Ok", queue |-> Append(cmd_queue, cmd)]
    ELSE [value |-> "Err", queue |-> cmd_queue]

\* NotificationHandle::try_set_handshake
try_set_handshake(h, handshake) ==
    /\ Alive(h)
    /\ Len(calls) < MaxCalls
    /\ LET r == TrySend(SetHandshake(handshake)) IN
       /\ cmd_queue' = r.queue
       /\ calls' = Append(calls, HandleCall("try_set_handshake", h, handshake, "-", r.value))
    /\ UNCHANGED <<svc_vars, lock_vars, conversion, public, cmd_rx, protocol_dropped, metric>>

\* NotificationHandle::set_handshake: self.tx.send(..).await waits while the
\* channel is full and fails once the receiver is gone.
set_handshake(h) ==
    /\ Alive(h)
    /\ IF cmd_rx
       THEN /\ Len(cmd_queue) < COMMAND_QUEUE_SIZE
            /\ cmd_queue' = Append(cmd_queue, SetHandshake(UsualHandshake))
       ELSE cmd_queue' = cmd_queue
    /\ UNCHANGED <<svc_vars, lock_vars, conversion, public, calls, cmd_rx, protocol_dropped, metric>>

\* NotificationHandle::open_substream: todo!()
open_substream(h, peer) ==
    /\ Alive(h)
    /\ Len(calls) < MaxCalls
    /\ calls' = Append(calls, HandleCall("open_substream", h, peer, "-", "panic"))
    /\ UNCHANGED <<svc_vars, lock_vars, conversion, public, cmd_queue, cmd_rx, protocol_dropped, metric>>

\* NotificationHandle::close_substream: todo!()
close_substream(h, peer) ==
    /\ Alive(h)
    /\ Len(calls) < MaxCalls
    /\ calls' = Append(calls, HandleCall("close_substream", h, peer, "-", "panic"))
    /\ UNCHANGED <<svc_vars, lock_vars, conversion, public, cmd_queue, cmd_rx, protocol_dropped, metric>>

\* Notifications takes the next command off the stream split() gave it.
recv_command ==
    /\ cmd_rx
    /\ cmd_queue # <<>>
    /\ cmd_queue' = Tail(cmd_queue)
    /\ UNCHANGED <<svc_vars, lock_vars, conversion, public, calls, cmd_rx, protocol_dropped, metric>>

\* Notifications drops the command stream, and the commands queued with it.
drop_command_stream ==
    /\ cmd_rx
    /\ cmd_rx' = FALSE
    /\ cmd_queue' = <<>>
    /\ UNCHANGED <<svc_vars, lock_vars, conversion, public, calls, protocol_dropped, metric>>

\* ---------------------------------------- MessageSink for NotificationSink
\* The sink a send through the cell addresses: the one read under the lock.
LockedSink(cell) == cells[cell].sink

sink_send_sync_notification(cell, notification) ==
    /\ cell \in RefCells
    /\ Sent < MaxSends
    /\ wire' = Append(wire, [sink |-> LockedSink(cell), data |-> notification,
                             via |-> cell])
    /\ UNCHANGED <<public, api_vars, hstate, rx, peers, cells, subscribers, num_peers, delegate_to_peerset,
                   panicked, nreports, tsink, topen, vals, refs, inflight>>

\* send_async_notification up to its await: the sink is cloned out of the lock.
sink_send_async_reserve(cell, notification) ==
    /\ cell \in RefCells
    /\ Sent < MaxSends
    /\ inflight' = inflight \cup {[cell |-> cell, sink |-> LockedSink(cell),
                                   data |-> notification]}
    /\ UNCHANGED <<public, api_vars, hstate, rx, peers, cells, subscribers, num_peers, delegate_to_peerset,
                   panicked, nreports, tsink, topen, vals, refs, wire>>

\* send_async_notification after its await: the permit was granted and the
\* notification sent, or the transport sink refused (ConnectionClosed,
\* ChannelClosed) and nothing was sent.
sink_send_async_complete(op, ok) ==
    /\ op \in inflight
    /\ inflight' = inflight \ {op}
    /\ wire' = IF ok
               THEN Append(wire, [sink |-> op.sink, data |-> op.data, via |-> op.cell])
               ELSE wire
    /\ UNCHANGED <<public, api_vars, hstate, rx, peers, cells, subscribers, num_peers, delegate_to_peerset,
                   panicked, nreports, tsink, topen, vals, refs>>

\* ------------------------------------------------------------ the protocol
\* The holder of a result_tx answers, or drops it without answering.
send_validation_result(vid, h, verdict) ==
    /\ vid \in 1..Len(vals)
    /\ vals[vid].reply[h] = "held"
    /\ vals' = [vals EXCEPT ![vid].reply[h] = verdict]
    /\ UNCHANGED <<public, api_vars, hstate, rx, peers, cells, subscribers, num_peers, delegate_to_peerset,
                   panicked, nreports, tsink, topen, refs, inflight, wire>>

\* ------------------------------------------------------------- the locks
\* The two kinds of Mutex of the service, and the two .await of its methods
\* that a caller can stay in: each method is followed from its lock() to the
\* end of the scope of the guard.  What the critical sections do to the
\* registry and to the pair is in the actions above.

\* A thread enters a method.  The report_* methods and clone start with
\* self.subscribers.lock(), the sends of a MessageSink with self.lock();
\* next_event starts with self.rx.next().await.
enter(t, method) ==
    /\ pc[t] = Idle
    /\ method \in Methods(t)
    /\ pc' = [pc EXCEPT ![t] = At(method, IF method = "next_event" THEN "await" ELSE "lock")]
    /\ UNCHANGED <<svc_vars, conversion, public, calls, cmd_queue, cmd_rx, protocol_dropped, metric,
                   subscribers_guard, shared_sink_guard>>

\* self.subscribers.lock() returns when no other thread holds the guard.
subscribers_lock(t) ==
    /\ pc[t].at = "lock"
    /\ pc[t].method \in {"report", "clone"}
    /\ subscribers_guard = NoThread
    /\ subscribers_guard' = t
    /\ pc' = [pc EXCEPT ![t].at = "locked"]
    /\ UNCHANGED <<svc_vars, conversion, public, calls, cmd_queue, cmd_rx, protocol_dropped, metric,
                   shared_sink_guard>>

\* The rest of a report_* method or of clone: unbounded_send, retain, push,
\* tokio::spawn, none of which waits; the guard goes at the return.
subscribers_unlock(t) ==
    /\ pc[t].at = "locked"
    /\ pc[t].method \in {"report", "clone"}
    /\ subscribers_guard' = NoThread
    /\ pc' = [pc EXCEPT ![t] = Idle]
    /\ UNCHANGED <<svc_vars, conversion, public, calls, cmd_queue, cmd_rx, protocol_dropped, metric,
                   shared_sink_guard>>

\* self.rx.next() yields an event: a NotificationSinkReplaced for a known
\* peer goes on to shared_sink.lock(), an event of another kind returns.
rx_next(t, replaced) ==
    /\ pc[t] = At("next_event", "await")
    /\ pc' = [pc EXCEPT ![t] = IF replaced THEN At("next_event", "lock") ELSE Idle]
    /\ UNCHANGED <<svc_vars, conversion, public, calls, cmd_queue, cmd_rx, protocol_dropped, metric,
                   subscribers_guard, shared_sink_guard>>

\* lock() on the Mutex of the pair returns when no other thread holds the
\* guard.
shared_sink_lock(t) ==
    /\ pc[t].at = "lock"
    /\ pc[t].method \in {"next_event", "send_sync_notification", "send_async_notification"}
    /\ shared_sink_guard = NoThread
    /\ shared_sink_guard' = t
    /\ pc' = [pc EXCEPT ![t].at = "locked"]
    /\ UNCHANGED <<svc_vars, conversion, public, calls, cmd_queue, cmd_rx, protocol_dropped, metric,
                   subscribers_guard>>

\* The guard of `let sink = self.lock();` living to the end of the method.
GuardAcrossAwait_Held(t) == t

\* The guard of `self.lock().clone()` is a temporary: it goes at the end of
\* the statement, before reserve_notification().await.
GuardAcrossAwait(t) == NoThread

\* The end of the critical section over the pair: the assignment of
\* next_event, after which the loop awaits the next event; the send of
\* send_sync_notification, which returns; the clone of
\* send_async_notification, which goes on to its .await.
shared_sink_unlock(t) ==
    /\ pc[t].at = "locked"
    /\ pc[t].method \in {"next_event", "send_sync_notification", "send_async_notification"}
    /\ shared_sink_guard' = IF pc[t].method = "send_async_notification"
                            THEN GuardAcrossAwait(t) ELSE NoThread
    /\ pc' = [pc EXCEPT ![t] =
                 CASE pc[t].method = "next_event" -> At("next_event", "await")
                   [] pc[t].method = "send_async_notification" ->
                          At("send_async_notification", "await")
                   [] OTHER -> Idle]
    /\ UNCHANGED <<svc_vars, conversion, public, calls, cmd_queue, cmd_rx, protocol_dropped, metric,
                   subscribers_guard>>

\* reserve_notification() resolves, with a permit or with an error, and
\* send_async_notification returns.
reserve_notification(t) ==
    /\ pc[t] = At("send_async_notification", "await")
    /\ pc' = [pc EXCEPT ![t] = Idle]
    /\ shared_sink_guard' = IF shared_sink_guard = t THEN NoThread ELSE shared_sink_guard
    /\ UNCHANGED <<svc_vars, conversion, public, calls, cmd_queue, cmd_rx, protocol_dropped, metric,
                   subscribers_guard>>

NextLocks ==
    \/ \E t \in Threads : \E method \in Methods(t) : enter(t, method)
    \/ \E t \in Threads : subscribers_lock(t)
    \/ \E t \in Threads : subscribers_unlock(t)
    \/ \E t \in Threads, replaced \in BOOLEAN : rx_next(t, replaced)
    \/ \E t \in Threads : shared_sink_lock(t)
    \/ \E t \in Threads : shared_sink_unlock(t)
    \/ \E t \in Threads : reserve_notification(t)
SpecLocks == Init /\ [][NextLocks]_vars

\* A thread inside a critical section runs on, and a parking_lot Mutex hands
\* the lock to every waiter in the end.  When an event or a permit arrives
\* is up to the transport.
SpecLocksFair ==
    /\ SpecLocks
    /\ \A t \in Threads :
          /\ SF_vars(subscribers_lock(t)) /\ WF_vars(subscribers_unlock(t))
          /\ SF_vars(shared_sink_lock(t)) /\ WF_vars(shared_sink_unlock(t))

\* The transport reports substream events; the handles consume them, are
\* cloned and are dropped.
NextLifecycle ==
    \/ \E p \in Peers : report_substream_opened(p)
    \/ \E p \in Peers : report_substream_closed(p)
    \/ \E p \in Peers, n \in Notifications : report_notification_received(p, n)
    \/ \E p \in Peers : report_notification_sink_replaced(p)
    \/ \E h \in Handles : next_event(h)
    \/ \E h \in Handles : clone(h)
    \/ \E h \in Handles : drop_handle(h)

\* The protocol sends notifications through a handle.
NextHandleSend ==
    \/ \E h \in Handles, p \in Peers, n \in Notifications : send_sync_notification(h, p, n)
    \/ \E h \in Handles, p \in Peers, n \in Notifications, o \in SinkOutcomes :
          send_async_notification(h, p, n, o)

\* The protocol sends notifications through a message sink it obtained from
\* a handle.
NextSinkSend ==
    \/ \E h \in Handles, p \in Peers : message_sink(h, p)
    \/ \E c \in CellIds, n \in Notifications : sink_send_sync_notification(c, n)
    \/ \E c \in CellIds, n \in Notifications : sink_send_async_reserve(c, n)
    \/ \E c \in CellIds, s \in Sinks, n \in Notifications, ok \in BOOLEAN :
          sink_send_async_complete([cell |-> c, sink |-> s, data |-> n], ok)

\* Validation of inbound substreams.
NextValidate ==
    \/ \E b \in BOOLEAN : set_delegate_to_peerset(b)
    \/ \E p \in Peers, hs \in Handshakes : report_incoming_substream(p, hs)
    \/ \E v \in 1..MaxValidations : aggregator_task(v)
    \/ \E v \in 1..MaxValidations, h \in Handles, r \in {"Accept", "Reject", "Dropped"} :
          send_validation_result(v, h, r)

NextSend == NextHandleSend \/ NextSinkSend


\* The substream events and the handles alone.
SpecLifecycle == Init /\ [][NextLifecycle]_vars

\* The substream events of one peer, the handles and the notifications sent.
NextSinks ==
    \/ report_substream_opened("P")
    \/ report_substream_closed("P")
    \/ \E n \in Notifications : report_notification_received("P", n)
    \/ report_notification_sink_replaced("P")
    \/ \E h \in Handles : next_event(h)
    \/ \E h \in Handles : clone(h)
    \/ \E h \in Handles : drop_handle(h)
    \/ NextSinkSend
SpecSinks == Init /\ [][NextSinks]_vars

\* The substream events of one peer, the handles and the notifications sent
\* through them.
NextHandleSends ==
    \/ report_substream_opened("P")
    \/ report_substream_closed("P")
    \/ report_notification_sink_replaced("P")
    \/ \E h \in Handles : next_event(h)
    \/ \E h \in Handles : clone(h)
    \/ \E h \in Handles : drop_handle(h)
    \/ NextHandleSend
SpecHandleSends == Init /\ [][NextHandleSends]_vars

\* The end of the service: the ProtocolHandle and the handles are dropped.
NextShutdown ==
    \/ report_substream_opened("P")
    \/ \E n \in Notifications : report_notification_received("P", n)
    \/ drop_protocol_handle
    \/ \E h \in Handles : next_event(h)
    \/ \E h \in Handles : clone(h)
    \/ \E h \in Handles : drop_handle(h)
SpecShutdown == Init /\ [][NextShutdown]_vars

\* The commands of the handles, original and clones, and their consumer.
NextCommands ==
    \/ \E h \in Handles, hs \in Handshakes : try_set_handshake(h, hs)
    \/ \E h \in Handles : set_handshake(h)
    \/ \E h \in Handles, p \in Peers : open_substream(h, p)
    \/ \E h \in Handles, p \in Peers : close_substream(h, p)
    \/ recv_command
    \/ drop_command_stream
    \/ \E h \in Handles : clone(h)
SpecCommands == Init /\ [][NextCommands]_vars

Next ==
    \/ NextLifecycle
    \/ NextSend
    \/ NextValidate
    \/ NextCommands
    \/ NextLocks
    \/ drop_protocol_handle

\* The whole service.
Spec == Init /\ [][Next]_vars

\* Validation, with handles cloned and dropped, and the transport reporting
\* the substream of one peer opened (which prunes the registry).
NextValidation ==
    \/ NextValidate
    \/ report_substream_opened("P")
    \/ \E h \in Handles : next_event(h)
    \/ \E h \in Handles : clone(h)
    \/ \E h \in Handles : drop_handle(h)
SpecValidation == Init /\ [][NextValidation]_vars

\* tokio runs every spawned task that is ready.
SpecValidationFair ==
    SpecValidation /\ \A v \in 1..MaxValidations : WF_vars(aggregator_task(v))


\* ------------------------------------------------------------- properties
Vids == 1..Len(vals)
Last(s) == s[Len(s)]
\* The subscribers whose unbounded_send of the validation event succeeded.
SentTo(v) == {h \in Handles : vals[v].reply[h] # "none"}
Refused(v) == {h \in Handles : vals[v].reply[h] \in {"Reject", "Dropped"}}
\* A step that is a call of report_incoming_substream.
IsValidationCall == Len(vals') = Len(vals) + 1
\* A step that is a call of one of the four broadcasting report_* methods.
IsBroadcast == nreports' = nreports + 1
OpenPeers == {p \in Peers : tsink[p] # NoSink}

\* C1: with two or more subscribers and delegation off, the verdict on the
\* returned receiver is Accept only if every subscriber the validation event
\* was sent to has answered Accept; it is never Accept while one of them has
\* answered Reject, dropped its result_tx, or not answered yet.
C1_AcceptOnlyIfAllAccepted ==
    \A v \in Vids :
        (vals[v].mode = "aggregated" /\ vals[v].out = "Accept")
            => \A h \in SentTo(v) : vals[v].reply[h] = "Accept"

C1_Witness ==
    \E v \in Vids :
        /\ vals[v].mode = "aggregated" /\ vals[v].out = "Accept"
        /\ Cardinality(SentTo(v)) >= 2

\* C2: with several subscribers, once one of them has answered Reject or has
\* dropped its result_tx, the verdict becomes Reject, whether or not the
\* other subscribers ever answer.
C2_RejectShortCircuits ==
    \A v \in 1..MaxValidations :
        (v \in Vids /\ vals[v].mode = "aggregated" /\ Refused(v) # {})
            ~> (v \in Vids /\ vals[v].out = "Reject")

\* Three handles got the event, one refused, the other two never answered.
C2_Witness ==
    \E v \in Vids :
        /\ vals[v].mode = "aggregated" /\ vals[v].out = "Reject"
        /\ Cardinality(SentTo(v)) = 3
        /\ Cardinality(Refused(v)) = 1
        /\ \A h \in SentTo(v) \ Refused(v) : vals[v].reply[h] \in {"queued", "held"}

\* A step in which a notification goes out through the cell, synchronously.
IsSinkSendSync(cell) ==
    /\ Len(wire') = Len(wire) + 1
    /\ Last(wire').via = cell
    /\ inflight' = inflight

\* A step in which handle h takes a NotificationSinkReplaced for a peer it knows.
IsSwap(h) ==
    /\ next_event(h)
    /\ Head(rx[h]).type = "NotificationSinkReplaced"
    /\ peers[h][Head(rx[h]).peer] # NoPeer

\* C3 as stated: a message sink was obtained for P after its substream was
\* opened; once the transport has reported the sink of that substream
\* replaced, a send through the message sink goes to the new sink.
C3_Original ==
    [][\A r \in refs, p \in Peers :
          (/\ IsSinkSendSync(r.cell)
           /\ topen[p] = r.cell[2]
           /\ r.at < tsink[p])
          => Last(wire').sink = tsink[p]]_vars

\* C3 as amended: the swap happens when a handle holding the cell takes the
\* NotificationSinkReplaced in next_event, and is seen by every holder of the
\* cell at once; a cell held outside changes its sink in no other step; a
\* synchronous send through the cell goes to the sink it holds at the send,
\* and an asynchronous one to the sink it held when the send was called.
C3_SwapOnNextEvent ==
    [][/\ \A h \in Handles : IsSwap(h) =>
             cells'[peers[h][Head(rx[h]).peer].shared].sink = Head(rx[h]).sink
       /\ \A c \in RefCells : cells'[c].sink # cells[c].sink =>
             \E h \in Handles :
                 /\ IsSwap(h)
                 /\ peers[h][Head(rx[h]).peer].shared = c
                 /\ cells'[c].sink = Head(rx[h]).sink
       /\ \A c \in RefCells : IsSinkSendSync(c) => Last(wire').sink = cells[c].sink
       /\ \A op \in inflight' \ inflight : op.sink = cells[op.cell].sink
       /\ \A op \in inflight \ inflight' :
             Len(wire') = Len(wire) + 1 =>
                 Last(wire').sink = op.sink /\ Last(wire').via = op.cell]_vars

\* A notification went through a held message sink, obtained before the
\* replacement was reported, to the sink that replaced the one the cell was
\* created with.
C3_Witness ==
    \E i \in 1..Len(wire), r \in refs, p \in Peers :
        /\ wire[i].via = r.cell
        /\ topen[p] = r.cell[2]
        /\ r.at < tsink[p]
        /\ wire[i].sink = tsink[p]

NewHandles == {n \in Handles : hstate[n] = "unborn" /\ hstate'[n] = "alive"}

C5_NumPeersSaturates ==
    /\ ~panicked
    /\ num_peers = Cardinality(OpenPeers)

\* C6: with one subscriber (its handle alive) and delegation off, the call
\* queues one ValidateInboundSubstream{peer, handshake} to it and nothing to
\* anyone else, and returns WaitForValidation on the receiver of the very
\* channel whose sender the event carries: what the subscriber answers on
\* it is what the transport reads, with no task in between.
C6_SoleSubscriberDirect ==
    [][/\ (/\ IsValidationCall
           /\ ~delegate_to_peerset
           /\ Len(subscribers) = 1
           /\ SendOk(subscribers[1]))
          => LET s == subscribers[1]
                 call == Last(vals')
             IN /\ call.ret = "WaitForValidation"
                /\ call.mode = "direct"
                /\ rx'[s] = Append(rx[s], ValidateInboundSubstream(call.peer,
                                              call.handshake, Len(vals')))
                /\ \A h \in Handles \ {s} : rx'[h] = rx[h]
       /\ \A v \in Vids, h \in Handles :
             (vals[v].mode = "direct" /\ vals[v].reply[h] # "none")
             => /\ SentTo(v) = {h}
                /\ vals[v].reply[h] \in {"Accept", "Reject"}
                      => ReceiverYields(vals[v]) = vals[v].reply[h]
                /\ vals[v].reply[h] \in {"queued", "held"}
                      => ReceiverYields(vals[v]) = "Pending"]_vars

\* The sole subscriber has answered Reject and the transport reads Reject.
C6_Witness ==
    \E v \in Vids :
        /\ vals[v].mode = "direct"
        /\ ReceiverYields(vals[v]) = "Reject"

\* C7: when the fan-out reached no subscriber (the registry was empty, or
\* every send failed), the returned receiver yields Accept.
C7_NoReceiverAccepts ==
    \A v \in 1..MaxValidations :
        (v \in Vids /\ vals[v].mode = "aggregated" /\ SentTo(v) = {})
            ~> (v \in Vids /\ ReceiverYields(vals[v]) = "Accept")

\* Accept came out of a fan-out over a registry of dropped handles only.
C7_Witness ==
    \E v \in Vids :
        /\ vals[v].mode = "aggregated" /\ SentTo(v) = {}
        /\ vals[v].out = "Accept"
        /\ Len(subscribers) >= 2

\* C8: report_incoming_substream returns an error exactly when the registry
\* holds one subscriber and the send to it fails; in every other state it
\* returns Delegated or WaitForValidation.
C8_ErrOnlyWhenSoleSendFails ==
    [][IsValidationCall =>
          /\ Last(vals').ret \in {"Err", "Delegated", "WaitForValidation"}
          /\ Last(vals').ret = "Err" <=>
                (/\ ~delegate_to_peerset
                 /\ Len(subscribers) = 1
                 /\ ~SendOk(subscribers[1]))]_vars

\* The call failed: the registry held the slot of a dropped handle alone.
C8_Witness ==
    \E v \in Vids :
        /\ vals[v].ret = "Err"
        /\ Len(subscribers) = 1 /\ ~Alive(subscribers[1])

\* C9: with delegate_to_peerset set, report_incoming_substream returns
\* Delegated, queues no event to any subscriber and leaves the registry as
\* it was, whatever the registry holds.
C9_DelegatedTouchesNothing ==
    [][(IsValidationCall /\ delegate_to_peerset) =>
          /\ Last(vals').ret = "Delegated"
          /\ rx' = rx
          /\ subscribers' = subscribers]_vars

\* Delegated was returned with the slots of a live and of a dropped handle
\* in the registry.
C9_Witness ==
    \E v \in Vids :
        /\ vals[v].ret = "Delegated"
        /\ \E h \in Range(subscribers) : Alive(h)
        /\ \E h \in Range(subscribers) : ~Alive(h)

\* C10: with the slot of a dropped handle in the registry, a broadcasting
\* report removes the slots of the dropped handles, keeps the slots of the
\* handles alive, and returns Ok to the transport.
C10_PrunesAndSucceeds ==
    [][(IsBroadcast /\ \E h \in Range(subscribers) : ~Alive(h)) =>
          /\ subscribers' = SelectSeq(subscribers, Alive)
          /\ ~panicked']_vars

\* A step in which handle h takes an inner event off its queue.
IsTake(h) == next_event(h) /\ rx[h] # <<>>

\* C11: a broadcasting report appends its one event, once, to the queue of
\* every handle alive at the call, within the call; no other step adds an
\* event of a substream to a queue, drops one or moves one; and next_event
\* takes the event at the head of the queue, so every handle goes through
\* the events in the order they were reported.
C11_BroadcastFifo ==
    [][/\ IsBroadcast =>
             \/ rx' = rx /\ \A h \in Handles : ~Alive(h)
             \/ \E e \in {Last(rx'[h]) : h \in {g \in Handles : Alive(g) /\ rx'[g] # <<>>}} :
                   /\ e.type # "ValidateInboundSubstream"
                   /\ \A h \in Handles :
                         rx'[h] = IF Alive(h) THEN Append(rx[h], e) ELSE rx[h]
       /\ \A h \in Handles :
             (Alive(h) /\ hstate'[h] = "alive" /\ rx'[h] # rx[h] /\ ~IsBroadcast)
                 => /\ IsTake(h)
                    /\ rx[h] = <<Head(rx[h])>> \o rx'[h]
                    /\ public'[h] \in {public[h], Append(public[h], PublicEvent(Head(rx[h])))}
                    /\ \A g \in Handles \ {h} : rx'[g] = rx[g]]_vars

\* Two handles have gone through the same three events.
C11_Witness ==
    \E h, g \in Handles :
        /\ h # g /\ Alive(h) /\ Alive(g)
        /\ Len(public[h]) = 3
        /\ public[g] = public[h]
        /\ public[h][1] # public[h][2]

\* The public events of one peer in a log.
OfPeer(log, p) == SelectSeq(log, LAMBDA e : e.peer = p)

\* (ValidateInbound? StreamOpened NotificationReceived* StreamClosed)* read
\* from the left: 0 between two substreams, 1 after ValidateInbound, 2 in an
\* open substream, 3 once the sequence is no prefix of a word.
Step(q, type) ==
    CASE q \in {0, 1} /\ type = "NotificationStreamOpened" -> 2
      [] q = 0 /\ type = "ValidateInboundSubstream" -> 1
      [] q = 2 /\ type = "NotificationReceived" -> 2
      [] q = 2 /\ type = "NotificationStreamClosed" -> 0
      [] OTHER -> 3

RECURSIVE Run(_, _)
Run(q, log) == IF log = <<>> THEN q ELSE Run(Step(q, Head(log).type), Tail(log))

\* The transport has reported no close for a peer it had not reported open.
NoStrayClose == ~panicked /\ num_peers = Cardinality(OpenPeers)

\* C12: for every handle, clones included, and every peer, the public events
\* next_event has returned for the peer are the beginning of a word of
\* (ValidateInbound? StreamOpened NotificationReceived* StreamClosed)*, as
\* long as the transport reports its closes after an open.
C12_PeerEventsRegular ==
    NoStrayClose =>
        \A h \in Handles, p \in Peers : Alive(h) => Run(0, OfPeer(public[h], p)) # 3

\* C15: next_event returns nothing for a NotificationSinkReplaced: for a peer
\* the handle knows it sets the sink of the PeerContext, for one it does not
\* know it changes no PeerContext and no cell; either way the handle stays
\* alive and the event is gone from the queue, the next one at its head.
C15_SinkReplacedNotSurfaced ==
    [][\A h \in Handles :
          (IsTake(h) /\ Head(rx[h]).type = "NotificationSinkReplaced")
              => LET e == Head(rx[h]) IN
                 /\ public'[h] = public[h]
                 /\ rx'[h] = Tail(rx[h])
                 /\ hstate' = hstate
                 /\ IF peers[h][e.peer] = NoPeer
                    THEN peers' = peers /\ cells' = cells
                    ELSE /\ peers'[h][e.peer].sink = e.sink
                         /\ peers'[h][e.peer].shared = peers[h][e.peer].shared
                         /\ \A g \in Handles, p \in Peers :
                               <<g, p>> # <<h, e.peer>> => peers'[g][p] = peers[g][p]]_vars

\* A handle has taken every event of its queue, a sink replacement for a
\* peer it knows among them, and has returned one event only.
C15_Witness ==
    \E h \in Handles, p \in Peers :
        /\ Alive(h) /\ rx[h] = <<>>
        /\ peers[h][p] # NoPeer
        /\ peers[h][p].sink # peers[h][p].shared[2]
        /\ Len(public[h]) = 1

\* A step that is a call of method op on a handle.
IsCall(op) == Len(calls') = Len(calls) + 1 /\ Last(calls').op = op
\* The notification a step has enqueued through handle h.
HandleSent(h) == Len(wire') = Len(wire) + 1 /\ Last(wire').via = <<h, NoSink>>

\* C13: send_async_notification returns PeerDoesntExist for a peer the
\* handle does not know (the sink is not asked and nothing is enqueued),
\* ConnectionClosed when the reservation on the primary sink of the peer is
\* refused, ChannelClosed when the send with the permit fails, and Ok only
\* when the bytes were enqueued on the primary sink; the peers of the handle
\* are the same after the call in every case.
C13_SendAsyncResults ==
    [][IsCall("send_async_notification") =>
          LET c == Last(calls')
              known == peers[c.handle][c.arg] # NoPeer
          IN /\ peers' = peers
             /\ c.value = "PeerDoesntExist" <=> ~known
             /\ ~known => c.sink = "-" /\ wire' = wire
             /\ c.value = "ConnectionClosed" <=> (known /\ c.sink = "ReserveRefused")
             /\ c.value = "ChannelClosed" <=> (known /\ c.sink = "SendFailed")
             /\ c.value = "Ok" <=> (known /\ c.sink = "Sent")
             /\ c.value = "Ok" <=>
                   (/\ HandleSent(c.handle)
                    /\ Last(wire').sink = peers[c.handle][c.arg].sink)
             /\ c.value # "Ok" => wire' = wire]_vars

\* The send failed on a peer the handle knows, and nothing was enqueued.
C13_Witness ==
    \E i \in 1..Len(calls) :
        /\ calls[i].op = "send_async_notification"
        /\ calls[i].value = "ChannelClosed"
        /\ peers[calls[i].handle][calls[i].arg] # NoPeer
        /\ wire = <<>>

\* C14: send_sync_notification for a peer the handle does not know enqueues
\* nothing, returns nothing and changes nothing; for a peer it knows it
\* enqueues the bytes once, on the primary sink of that peer.
C14_SendSyncAbsentPeer ==
    [][IsCall("send_sync_notification") =>
          LET c == Last(calls') IN
          /\ c.value = "()"
          /\ UNCHANGED <<hstate, rx, peers, cells, subscribers, num_peers, public,
                         vals, refs, inflight, panicked, tsink>>
          /\ IF peers[c.handle][c.arg] = NoPeer
             THEN wire' = wire
             ELSE \E n \in Notifications :
                     wire' = Append(wire, [sink |-> peers[c.handle][c.arg].sink,
                                           data |-> n, via |-> <<c.handle, NoSink>>])]_vars

\* The transport has the substream of the peer open, the handle called has
\* not taken the event yet, and nothing went out.
C14_Witness ==
    \E i \in 1..Len(calls) :
        /\ calls[i].op = "send_sync_notification"
        /\ tsink[calls[i].arg] # NoSink
        /\ Alive(calls[i].handle)
        /\ peers[calls[i].handle][calls[i].arg] = NoPeer
        /\ wire = <<>>

C17_TrySetHandshake ==
    [][/\ Len(cmd_queue') <= COMMAND_QUEUE_SIZE
       /\ IsCall("try_set_handshake") =>
             LET c == Last(calls') IN
             /\ c.value \in {"Ok", "Err"}
             /\ c.value = "Err" <=> (Len(cmd_queue) = COMMAND_QUEUE_SIZE \/ ~cmd_rx)
             /\ c.value = "Err" => cmd_queue' = cmd_queue
             /\ c.value = "Ok" => cmd_queue' = Append(cmd_queue, SetHandshake(c.arg))]_vars

\* try_set_handshake on a clone has failed on the full channel of a live
\* receiver.
C17_Witness ==
    \E i \in 1..Len(calls) :
        /\ calls[i].op = "try_set_handshake"
        /\ calls[i].handle # 1
        /\ calls[i].value = "Err"
        /\ cmd_rx
        /\ Len(cmd_queue) = COMMAND_QUEUE_SIZE

\* C18: open_substream and close_substream return to their caller, Ok with
\* the OpenSubstream / CloseSubstream command queued or an error with the
\* queue as it was; they do not panic.
C18_SubstreamCommandsReturn ==
    [][(IsCall("open_substream") \/ IsCall("close_substream")) =>
          LET c == Last(calls') IN
          /\ c.value \in {"Ok", "Err"}
          /\ c.value = "Err" => cmd_queue' = cmd_queue
          /\ c.value = "Ok" =>
                cmd_queue' = Append(cmd_queue, IF c.op = "open_substream"
                                               THEN OpenSubstream(c.arg)
                                               ELSE CloseSubstream(c.arg))]_vars

\* C19: once the ProtocolHandle and every other handle are dropped and the
\* handle has taken the events queued to it, its event stream has ended: a
\* call of next_event returns None, it does not wait.
C19_NoneAfterShutdown ==
    \A h \in Handles :
        (/\ Alive(h)
         /\ protocol_dropped
         /\ \A g \in Handles \ {h} : ~Alive(g)
         /\ rx[h] = <<>>)
            => StreamEnded(h)

\* The positions of the separators of a name, and the last one below a bound.
Slashes(name) == {i \in 1..Len(name) : name[i] = "/"}
LastSlashBelow(name, k) ==
    IF \E i \in Slashes(name) : i < k
    THEN CHOOSE i \in Slashes(name) : i < k /\ \A j \in Slashes(name) : j < k => j <= i
    ELSE 0

\* C20 as stated: the label is the prefix followed by the last two segments
\* of the name in the order they have in the name: "/a/b/c/d/e" gives
\* mpsc-notification-to-protocol-d-e.
C20_Original ==
    (metric.label # NoLabel /\ Slashes(metric.protocol) # {}) =>
        LET name == metric.protocol
            b == LastSlashBelow(name, Len(name) + 1)
            a == LastSlashBelow(name, b)
        IN metric.label = <<LabelPrefix, "-">> \o SubSeq(name, a + 1, b - 1)
                              \o <<"-">> \o SubSeq(name, b + 1, Len(name))

\* C20 as amended: the label is the prefix followed by the last segment of
\* the name and then the one before it, each after a "-": "/a/b/c/d/e" gives
\* mpsc-notification-to-protocol-e-d; a name without separator gives the
\* prefix, "-" and the name.
C20_LabelLastTwoReversed ==
    metric.label # NoLabel =>
        LET name == metric.protocol
            b == LastSlashBelow(name, Len(name) + 1)
            a == LastSlashBelow(name, b)
        IN /\ metric.label =
                 IF b = 0
                 THEN <<LabelPrefix, "-">> \o name
                 ELSE <<LabelPrefix, "-">> \o SubSeq(name, b + 1, Len(name))
                          \o <<"-">> \o SubSeq(name, a + 1, b - 1)
           /\ name = ExampleName => metric.label = <<LabelPrefix, "-", "e", "-", "d">>

\* The channel of "/a/b/c/d/e" has got its name.
C20_Witness ==
    /\ metric.protocol = ExampleName
    /\ metric.label # NoLabel

\* The j-th segment of a name counted from its end, the segments being what
\* lies between two separators (or an end of the name).
RECURSIVE EndOfSegment(_, _)
EndOfSegment(name, j) ==
    IF j = 1 THEN Len(name) + 1 ELSE LastSlashBelow(name, EndOfSegment(name, j - 1))
SegmentFromEnd(name, j) ==
    SubSeq(name, LastSlashBelow(name, EndOfSegment(name, j)) + 1, EndOfSegment(name, j) - 1)

\* C21: the label depends on the protocol name only and is what comes out of
\* splitting the name at "/", reversing the segments, taking the first two
\* and appending "-" and the segment to the prefix for each in turn; for
\* /sup/1/transactions/2 it is mpsc-notification-to-protocol-2-transactions.
C21_LabelByFold ==
    metric.label # NoLabel =>
        LET name == metric.protocol
            count == Cardinality(Slashes(name)) + 1
        IN /\ metric.label =
                 IF count = 1
                 THEN <<LabelPrefix>> \o <<"-">> \o SegmentFromEnd(name, 1)
                 ELSE (<<LabelPrefix>> \o <<"-">> \o SegmentFromEnd(name, 1))
                          \o <<"-">> \o SegmentFromEnd(name, 2)
           /\ name = ScenarioName =>
                 metric.label = <<LabelPrefix, "-", "2", "-", "t", "r", "a", "n", "s",
                                  "a", "c", "t", "i", "o", "n", "s">>

\* The channel of /sup/1/transactions/2 has got its name.
C21_Witness ==
    /\ metric.protocol = ScenarioName
    /\ metric.label # NoLabel

\* C22: in every reachable state the primary sink of every PeerContext of
\* every handle is the sink held in the SinkRef of that PeerContext.
C22_PrimaryIsShared ==
    \A h \in Handles : \A p \in Peers :
        (Alive(h) /\ peers[h][p] # NoPeer) =>
            cells[peers[h][p].shared].sink = peers[h][p].sink

\* C23: an event processed by one handle leaves the PeerTable of every other
\* handle as it was (its entries, their primary sinks and the sinks inside
\* their SinkRefs), and so does clone for every handle that existed before.
C23_PeerTablesNotShared ==
    [][/\ \A h \in Handles : IsTake(h) =>
              \A g \in Handles \ {h} : Alive(g) =>
                  /\ peers'[g] = peers[g]
                  /\ \A p \in Peers : peers[g][p] # NoPeer =>
                         cells'[peers[g][p].shared] = cells[peers[g][p].shared]
       /\ NewHandles # {} =>
              \A g \in Handles \ NewHandles :
                  /\ peers'[g] = peers[g]
                  /\ \A p \in Peers : peers[g][p] # NoPeer =>
                         cells'[peers[g][p].shared] = cells[peers[g][p].shared]]_vars

\* C24: a call of report_incoming_substream leaves the registry and num_peers
\* as they were, even when the send to a dropped handle fails; the failed
\* send has no receiver in the aggregation, every successful one has.
C24_ValidationKeepsRegistry ==
    [][IsValidationCall =>
          /\ subscribers' = subscribers
          /\ num_peers' = num_peers
          /\ Last(vals').mode = "aggregated" =>
                \A h \in Handles :
                    Last(vals').reply[h] =
                        IF h \in Range(subscribers) /\ Alive(h) THEN "queued" ELSE "none"]_vars

\* An aggregated validation whose fan-out met a dropped handle still in the
\* registry, with a live handle behind it.
C24_Witness ==
    \E v \in Vids : \E i, j \in 1..Len(subscribers) :
        /\ vals[v].mode = "aggregated"
        /\ i < j
        /\ ~Alive(subscribers[i]) /\ vals[v].reply[subscribers[i]] = "none"
        /\ vals[v].reply[subscribers[j]] # "none"

\* What the receiver of a validation can yield when the exchange is over:
\* a verdict, or the error of a result_tx dropped without a verdict.
Terminal == {"Accept", "Reject", "RecvError"}
Answered(v) == \A h \in SentTo(v) : vals[v].reply[h] \in {"Accept", "Reject", "Dropped"}

\* C25: a validation exchange leaves Pending for one outcome only: what the
\* receiver has yielded it yields ever after, and once every subscriber the
\* event was sent to has replied or dropped its result_tx, the receiver
\* yields.
C25_OneTerminalOutcome ==
    /\ [][\A v \in Vids :
              ReceiverYields(vals[v]) \in Terminal =>
                  ReceiverYields(vals'[v]) = ReceiverYields(vals[v])]_vars
    /\ \A v \in 1..MaxValidations :
          (v \in Vids /\ vals[v].ret = "WaitForValidation" /\ Answered(v))
              ~> (v \in Vids /\ ReceiverYields(vals[v]) \in Terminal)

\* Three subscribers got the event and every one has answered, one of them
\* by dropping its result_tx; the receiver has yielded.
C25_Witness ==
    \E v \in Vids :
        /\ vals[v].mode = "aggregated"
        /\ ReceiverYields(vals[v]) \in Terminal
        /\ Cardinality(SentTo(v)) = 3
        /\ Answered(v)
        /\ \E h \in SentTo(v) : vals[v].reply[h] = "Dropped"

\* C26: a SinkRef holds a pair written whole, by the creation of the cell or
\* by one swap, and the name of the pair is the protocol name of the service;
\* a send through the SinkRef reads the sink of the pair the cell holds at
\* that moment.
C26_PairWrittenWhole ==
    [][/\ \A c \in CellIds :
             /\ cells'[c] # NoCell => cells'[c].name = ProtocolName
             /\ (cells'[c] # cells[c] /\ cells'[c] # NoCell) =>
                   \E h \in Handles :
                       /\ IsTake(h)
                       /\ Head(rx[h]).type \in {"NotificationStreamOpened",
                                                "NotificationSinkReplaced"}
                       /\ cells'[c] = [sink |-> Head(rx[h]).sink, name |-> ProtocolName]
       /\ \A c \in RefCells :
             /\ IsSinkSendSync(c) =>
                   /\ cells[c].name = ProtocolName
                   /\ Last(wire').sink = cells[c].sink
             /\ \A op \in inflight' \ inflight :
                   op.cell = c => op.sink = cells[c].sink /\ cells[c].name = ProtocolName]_vars

\* An asynchronous send waits for its permit with the pair it read, and the
\* cell has been swapped since.
C26_Witness ==
    \E op \in inflight :
        /\ cells[op.cell] # NoCell
        /\ cells[op.cell].sink # op.sink
        /\ cells[op.cell].name = ProtocolName

\* The positions of a method that has to come to its end by itself: before
\* a lock() and inside a critical section.
Running(t) == pc[t].at \in {"lock", "locked"}

\* C27: no thread is suspended with a guard, none holds the guard of the
\* registry and a guard of a pair together, and every report_*, clone, swap
\* and synchronous send that has begun comes to its end, whatever the other
\* threads do and however long an asynchronous send waits for its permit.
C27_LocksNeverBlock ==
    /\ [](\A t \in Threads :
             /\ ~(subscribers_guard = t /\ shared_sink_guard = t)
             /\ pc[t].at = "await" => (subscribers_guard # t /\ shared_sink_guard # t))
    /\ \A t \in Threads : Running(t) ~> ~Running(t)

\* Two asynchronous sends wait for their permits while the transport is
\* inside a report, one handle is inside a swap and the other waits to clone.
C27_Witness ==
    /\ pc["sink1"] = At("send_async_notification", "await")
    /\ pc["sink2"] = At("send_async_notification", "await")
    /\ subscribers_guard = "transport"
    /\ shared_sink_guard = "handle1"
    /\ pc["handle2"] = At("clone", "lock")

\* C28: the sink held in a SinkRef that is held outside the handles never
\* goes back to a sink the transport reported earlier (sinks are numbered in
\* the order of the reports).
C28_SinkRefNeverReverts ==
    [][\A c \in RefCells :
          (cells[c] # NoCell /\ cells'[c] # NoCell) => cells'[c].sink >= cells[c].sink]_vars

\* C29: a live handle that has processed every event queued for it has in
\* its PeerTable only peers whose substream is open at the transport.
C29_NoClosedPeerKept ==
    \A h \in Handles :
        (Alive(h) /\ rx[h] = <<>>) =>
            \A p \in Peers : peers[h][p] # NoPeer => tsink[p] # NoSink

\* The slots of the registry whose sender feeds handle h.
Slots(h) == {i \in 1..Len(subscribers) : subscribers[i] = h}

\* C30: every live handle has one slot in the registry and no handle has
\* two; a broadcast leaves the slot of every live handle in place.
C30_OneSlotPerLiveHandle ==
    \A h \in Handles :
        /\ Cardinality(Slots(h)) <= 1
        /\ Alive(h) => Cardinality(Slots(h)) = 1
        /\ hstate[h] = "unborn" => Slots(h) = {}

\* Three handles were registered, a broadcast has pruned the slot of a
\* dropped one, and a live one has two events waiting.
C30_Witness ==
    /\ \E h \in Handles : hstate[h] = "dropped" /\ Slots(h) = {}
    /\ \E h \in Handles : Alive(h) /\ Len(rx[h]) >= 2
    /\ \A h \in Handles : hstate[h] # "unborn"

\* What each member of the tuple answers to the arguments of the call.
Answers ==
    [i \in 1..Len(conversion.members) |->
        MemberConvert(conversion.members[i], conversion.asset, conversion.asset_id)]
Succeeding == {i \in 1..Len(conversion.members) : Answers[i].ok}

\* C31: the tuple's convert_asset calls its members in tuple order up to the
\* first that succeeds and returns what that one returned; when every one
\* fails it returns the error of the last; an empty tuple returns
\* TooExpensive.
C31_FirstSuccessOrLastError ==
    (conversion.done /\ conversion # NoConversion) =>
        LET n == Len(conversion.members) IN
        IF Succeeding # {}
        THEN LET first == CHOOSE i \in Succeeding : \A j \in Succeeding : i <= j IN
             /\ conversion.ret = Answers[first]
             /\ conversion.called = [k \in 1..first |-> k]
        ELSE IF n = 0
        THEN conversion.ret = Err("TooExpensive") /\ conversion.called = <<>>
        ELSE /\ conversion.ret = Err(conversion.members[n].error)
             /\ conversion.called = [k \in 1..n |-> k]

\* A tuple of three has returned: its first member failed, its second
\* succeeded, and its third, which would have succeeded with another
\* amount, was not called.
C31_Witness ==
    /\ conversion.done
    /\ Len(conversion.members) = 3
    /\ Succeeding = {2, 3}
    /\ Answers[2] # Answers[3]
    /\ conversion.ret = Answers[2]
    /\ conversion.called = <<1, 2>>

=============================================================================
